---- MODULE Spec2Model ----
(***************************************************************************)
(* Native-Plugin-Lib: reading the PLUGIN_DATA record of a plugin dll       *)
(* without loading it.                                                     *)
(*                                                                         *)
(* The model follows src/src/lib.rs (get_plugin_data, PluginData,          *)
(* WriteableAlloc), src/src/rstr.rs (RStr), src/src/c.rs (the extern "C"   *)
(* surface) and src/src/blob.rs + src/src/dll.rs (Blob, Dll::new).         *)
(*                                                                         *)
(* Memory is modelled at byte level: a file is a sequence of bytes         *)
(* (0..255), the Plugin record is its 40 bytes in repr(C) layout, string   *)
(* references are 8-byte little-endian virtual addresses.  All addresses   *)
(* of the model are below 2^24; a 64-bit value with a higher byte set is   *)
(* decoded to Huge, which compares as larger than every address.           *)
(***************************************************************************)
EXTENDS Integers, Sequences, FiniteSets, TLC

\* ------------------------------------------------------------------ bounds

\* Number of loads (get_plugin_data / Dll::new calls) in one behaviour.
MaxCalls == 2

\* Number of objects (PluginData, CPlugin handles, Dll) alive at once.
MaxLive == 1

\* ------------------------------------------------------- program constants

\* lib.rs:27  pub const DATA_VERSION: usize = 1;
DATA_VERSION == 1

\* size_of::<Plugin>(): #[repr(C)] usize + 3 pointers + 3 u16, padded to 8.
PluginSize == 40

\* The null pointer (ptr::null(), a failed alloc::alloc).
NULL == 0

\* ------------------------------------------------------------ byte helpers

Huge == 256 * 256 * 256

Zeros(n) == [i \in 1..n |-> 0]

Fill(n, b) == [i \in 1..n |-> b]

Pad8(n) == ((n + 7) \div 8) * 8

\* n as k little-endian bytes
RECURSIVE LE(_, _)
LE(n, k) == IF k = 0 THEN <<>> ELSE <<n % 256>> \o LE(n \div 256, k - 1)

\* little-endian u16 at bytes b[1..2]
U16(b) == b[1] + 256 * b[2]

\* little-endian u64 / usize at bytes b[1..8]; values >= 2^24 are clamped to Huge
U64(b) ==
  IF \E i \in 4..8 : b[i] # 0
    THEN Huge
    ELSE b[1] + 256 * b[2] + 65536 * b[3]

\* ------------------------------------------------- the images on the disk

Loader == <<76, 111, 97, 100, 101, 114>>

Cherry == <<67, 104, 101, 114, 114, 121>>

LoaderDescription ==
  <<80, 108, 117, 103, 105, 110, 32, 108, 111, 97, 100, 101, 114, 32, 102,
    111, 114, 32, 89, 101, 116, 45, 65, 110, 111, 116, 104, 101, 114, 45, 66,
    71, 51, 45, 78, 97, 116, 105, 118, 101, 45, 77, 111, 100, 45, 76, 111, 97,
    100, 101, 114>>

\* tests/test_get_plugin_data.rs: the plugin of tests/loader.dll
LoaderDesc ==
  [name |-> Loader, author |-> Cherry, description |-> LoaderDescription,
   version |-> [major |-> 0, minor |-> 1, patch |-> 0]]

\* Declared descriptors: what declare_plugin! was given in the plugin crate.
SmallDesc ==
  [name |-> <<65>>, author |-> <<>>, description |-> <<66, 67>>,
   version |-> [major |-> 65535, minor |-> 258, patch |-> 1]]

Descs ==
  { LoaderDesc,
    SmallDesc,
    [name |-> <<>>, author |-> <<195, 169>>, description |-> <<>>,
     version |-> [major |-> 1, minor |-> 0, patch |-> 256]] }

\* Header of an image: what pelite reads from the DOS/NT headers, the section
\* table and the export directory.  It occupies the first bytes of the file.
HeaderBytes == <<77, 90, 0, 0, 80, 69, 0, 0>>

ImageHeader(sections, export) ==
  [ImageBase |-> 65536, SizeOfImage |-> 16384,
   sections |-> sections, exports |-> export]

Section(va, vsize, raw, rawsize) ==
  [VirtualAddress |-> va, VirtualSize |-> vsize,
   PointerToRawData |-> raw, SizeOfRawData |-> rawsize]

Symbol(name, rva) == [name |-> name, kind |-> "symbol", rva |-> rva]

\* declare_plugin!: the three strings, each with its "\0" appended
StringData(d) == d.name \o <<0>> \o d.author \o <<0>> \o d.description \o <<0>>

\* The static PLUGIN_DATA as the linker lays it out: string references are
\* virtual addresses at the preferred base.
PluginBytes(ver, nameVa, authorVa, descVa, v) ==
  LE(ver, 8) \o LE(nameVa, 8) \o LE(authorVa, 8) \o LE(descVa, 8)
    \o LE(v.major, 2) \o LE(v.minor, 2) \o LE(v.patch, 2) \o <<0, 0>>

\* A file on the disk: its header, its bytes, and (for the claims only) the
\* descriptor it was built from and whether it is a conforming plugin image.
\*   ok           a conforming plugin: [header][.rdata strings][.data record]
\*   ver0, ver2   the same with data_ver 0 / DATA_VERSION + 1
\*   ver2junk     data_ver DATA_VERSION + 1 and a name field that is no address
\*   badhdr       not a PE image
\*   noexport     no PLUGIN_DATA among the exports
\*   forward      PLUGIN_DATA exported as a forwarder (no symbol address)
\*   exportoob    PLUGIN_DATA at an RVA no section contains
\*   recordtail   PLUGIN_DATA at the last 8 bytes of the file
\*   nullref      name reference 0
\*   lowref       author reference below the image base
\*   unterminated [header][.data record][.rdata strings], last "\0" cut off
\*   atend        description reference translating to the end of the file
Variants ==
  { "ok", "ver0", "ver2", "ver2junk", "badhdr", "noexport", "forward",
    "exportoob", "recordtail", "nullref", "lowref", "unterminated", "atend" }

BuildImage(d, v) ==
  LET recordFirst == v \in {"unterminated", "atend"}
      base        == 65536
      rdataVa     == 4096
      dataVa      == 8192
      strings     == IF v = "unterminated"
                       THEN SubSeq(StringData(d), 1, Len(StringData(d)) - 1)
                       ELSE StringData(d)
      rdataRaw    == IF recordFirst THEN 8 + PluginSize ELSE 8
      rdataSize   == IF recordFirst THEN Len(strings) ELSE Pad8(Len(strings))
      dataRaw     == IF recordFirst THEN 8 ELSE 8 + rdataSize
      nameRva     == rdataVa
      authorRva   == rdataVa + Len(d.name) + 1
      descRva     == IF v = "atend"
                       THEN rdataVa + Len(strings)
                       ELSE rdataVa + Len(d.name) + Len(d.author) + 2
      ver         == CASE v = "ver0" -> 0
                       [] v \in {"ver2", "ver2junk"} -> DATA_VERSION + 1
                       [] OTHER -> DATA_VERSION
      nameVa      == CASE v = "nullref" -> 0
                       [] v = "ver2junk" -> 3
                       [] OTHER -> base + nameRva
      authorVa    == IF v = "lowref" THEN authorRva ELSE base + authorRva
      record      == PluginBytes(ver, nameVa, authorVa, base + descRva, d.version)
      rdata       == strings \o Zeros(rdataSize - Len(strings))
      sections    == << Section(rdataVa,
                                IF v = "atend" THEN Len(strings) + 1 ELSE Len(strings),
                                rdataRaw, rdataSize),
                        Section(dataVa, PluginSize, dataRaw, PluginSize) >>
      other       == Symbol("DllMain", rdataVa)
      exports     == CASE v = "noexport" -> {other}
                       [] v = "forward" ->
                            {other, [name |-> "PLUGIN_DATA", kind |-> "forward", rva |-> 0]}
                       [] v = "exportoob" -> {other, Symbol("PLUGIN_DATA", 12000)}
                       [] v = "recordtail" ->
                            {other, Symbol("PLUGIN_DATA", dataVa + PluginSize - 8)}
                       [] OTHER -> {other, Symbol("PLUGIN_DATA", dataVa)}
      head        == IF v = "badhdr" THEN Zeros(8) ELSE HeaderBytes
  IN  [ hdr        |-> ImageHeader(sections, exports),
        bytes      |-> IF recordFirst
                         THEN head \o record \o rdata
                         ELSE head \o rdata \o record,
        decl       |-> d,
        conforming |-> v = "ok",
        variant    |-> v ]

\* The files of the model: every descriptor as a conforming image, and every
\* other variant of one of them.
Files ==
  { BuildImage(d, "ok") : d \in Descs } \cup { BuildImage(SmallDesc, v) : v \in Variants }

\* What File::open is given when the path names no readable file.
NoFile ==
  [ hdr |-> ImageHeader(<<>>, {}), bytes |-> <<>>, decl |-> LoaderDesc,
    conforming |-> FALSE, variant |-> "missing" ]

\* ----------------------------------------------------- pelite (PeFile)

Ok(v) == [ok |-> TRUE, val |-> v, err |-> "none"]

Err(e) == [ok |-> FALSE, val |-> 0, err |-> e]

\* PeFile::from_bytes: the header magic values must be there.
PeFile_from_bytes(data) ==
  IF Len(data) >= Len(HeaderBytes) /\ SubSeq(data, 1, Len(HeaderBytes)) = HeaderBytes
    THEN Ok(0)
    ELSE Err("Parse")

\* file.get_export(name): exact-name lookup in the export directory
get_export(hdr, name) ==
  IF \E e \in hdr.exports : e.name = name
    THEN Ok(CHOOSE e \in hdr.exports : e.name = name)
    ELSE Err("SymbolNotFound")

\* Export::symbol(): Some(rva) for a symbol, None for a forwarder
symbol(export) ==
  IF export.kind = "symbol" THEN Ok(export.rva) ELSE Err("Null")

SectionOf(hdr, rva) ==
  { i \in 1..Len(hdr.sections) :
      /\ rva >= hdr.sections[i].VirtualAddress
      /\ rva < hdr.sections[i].VirtualAddress + hdr.sections[i].VirtualSize }

\* file.rva_to_file_offset(rva): the first section containing rva; fails when
\* there is none or the offset lies beyond the file.
rva_to_file_offset(hdr, len, rva) ==
  IF SectionOf(hdr, rva) = {}
    THEN Err("Bounds")
    ELSE LET s   == hdr.sections[CHOOSE i \in SectionOf(hdr, rva) :
                                   \A j \in SectionOf(hdr, rva) : i <= j]
             off == rva - s.VirtualAddress + s.PointerToRawData
         IN  IF off > len THEN Err("Bounds") ELSE Ok(off)

\* file.va_to_rva(va): va - ImageBase, within the image
va_to_rva(hdr, va) ==
  IF va < hdr.ImageBase \/ va - hdr.ImageBase > hdr.SizeOfImage
    THEN Err("Bounds")
    ELSE Ok(va - hdr.ImageBase)

\* ------------------------------------------------------------- the state

VARIABLES
  heap,     \* the allocator's blocks, by id 1..Len(heap): [state, kind, owner]
  plugins,  \* the PluginData values Rust callers hold
  handles,  \* the CPlugin handles C callers hold
  dlls,     \* the Dll values callers hold, each by the block of its Blob
  views,    \* the raw view the last accessor call returned, while its handle
            \* is not released: a set of at most one [handle, field, ptr]
  got,      \* what the last field read through an RStr returned
  cret,     \* what the last extern "C" get_plugin_data / Dll::new returned
  ub,       \* the undefined operations executed so far: <<kind, what>>
  calls,    \* number of loads started
  call      \* the load in progress: its position and its locals

vars == <<heap, plugins, handles, dlls, views, got, cret, ub, calls, call>>

NoPlugin ==
  [data_ver |-> 0, name |-> 0, author |-> 0, description |-> 0,
   version |-> [major |-> 0, minor |-> 0, patch |-> 0]]

NoRet == [ok |-> FALSE, err |-> "none"]

NoRead ==
  [field |-> "none", value |-> <<>>, version |-> [major |-> 0, minor |-> 0, patch |-> 0],
   decl |-> LoaderDesc, conforming |-> FALSE]

\* mark: the number of blocks that existed when the call began
NoResult == [op |-> "none", ok |-> FALSE, ptr |-> NULL, err |-> "none", mark |-> 0]

\* No load in progress.
Idle ==
  [ pc |-> "idle", caller |-> "none", mark |-> 0, file |-> NoFile, alloc |-> NULL, len |-> 0,
    written |-> 0, complete |-> FALSE, buf |-> <<>>, rva |-> 0, offset |-> 0, plugin |-> NoPlugin,
    rstr |-> [name |-> 0, author |-> 0, description |-> 0],
    translated |-> {}, ret |-> NoRet ]

Init ==
  /\ heap = <<>>
  /\ plugins = {}
  /\ handles = {}
  /\ dlls = {}
  /\ views = {}
  /\ got = NoRead
  /\ cret = NoResult
  /\ ub = {}
  /\ calls = 0
  /\ call = Idle

\* ------------------------------------------------------------ the allocator

\* owner: for a CString, the box of the CPlugin that holds it (else NULL)
Block(kind, owner) == [state |-> "live", kind |-> kind, owner |-> owner]

\* alloc::dealloc / drop of a Box or CString: the block is released; releasing
\* a block twice is undefined.
Dealloc(h, id) ==
  [h EXCEPT ![id].state = IF h[id].state = "live" THEN "freed" ELSE "double-freed"]

RECURSIVE DeallocAll(_, _)
DeallocAll(h, ids) ==
  IF ids = <<>> THEN h ELSE DeallocAll(Dealloc(h, Head(ids)), Tail(ids))

LiveObjects == Cardinality(plugins) + Cardinality(handles) + Cardinality(dlls)

\* A new load starts between calls, while the program's state is defined.
CanStart ==
  /\ call.pc = "idle"
  /\ ub = {}
  /\ calls < MaxCalls
  /\ LiveObjects < MaxLive

\* What the uninitialised or out-of-bounds bytes of one read turn out to hold.
Garbage == {0, 65}

\* ------------------------------------------- lib.rs: get_plugin_data

\* The `?` of get_plugin_data: the error is returned; nothing else is done.
Fail(e) ==
  call' = [call EXCEPT !.pc = "returned", !.ret = [ok |-> FALSE, err |-> e]]

\* An undefined operation that ends the process (an access violation).
Fault(kinds) ==
  /\ call' = [call EXCEPT !.pc = "fault"]
  /\ ub' = ub \cup kinds

\* A Rust caller calls get_plugin_data(dll); the path names file f or nothing.
RustCall ==
  /\ CanStart
  /\ \E f \in Files \cup {NoFile} :
       call' = [Idle EXCEPT !.pc = "open", !.caller = "rust", !.file = f,
                           !.mark = Len(heap)]
  /\ calls' = calls + 1
  /\ got' = NoRead
  /\ cret' = NoResult
  /\ UNCHANGED <<heap, plugins, handles, dlls, views, ub>>

\* lib.rs 186-194: File::open, metadata().len(), Layout, alloc::alloc.
\* The allocator returns a new block or null.
Open ==
  /\ call.pc = "open"
  /\ \/ /\ call.file = NoFile
        /\ Fail("Io")
        /\ UNCHANGED heap
     \/ /\ call.file # NoFile
        /\ heap' = Append(heap, Block("image", NULL))
        /\ call' = [call EXCEPT !.pc = "copy", !.len = Len(call.file.bytes),
                                !.alloc = Len(heap) + 1]
     \/ /\ call.file # NoFile
        /\ call' = [call EXCEPT !.pc = "copy", !.len = Len(call.file.bytes),
                                !.alloc = NULL]
        /\ UNCHANGED heap
  /\ UNCHANGED <<plugins, handles, dlls, views, got, cret, ub, calls>>

\* lib.rs 144-163: WriteableAlloc::write.  mem is what has been copied to ptr.
WriteableAlloc_write(w, b) ==
  IF w.written + Len(b) > w.size
    THEN [ok |-> FALSE, w |-> w]
    ELSE [ok |-> TRUE,
          w  |-> [w EXCEPT !.written = w.written + Len(b), !.mem = w.mem \o b]]

\* io::copy(&mut file, &mut write): every chunk read is handed to write_all
\* (lib.rs 165-168), until the file reports its end.
RECURSIVE io_copy(_, _)
io_copy(w, chunks) ==
  IF chunks = <<>>
    THEN [ok |-> TRUE, w |-> w]
    ELSE LET r == WriteableAlloc_write(w, Head(chunks))
         IN  IF r.ok THEN io_copy(r.w, Tail(chunks)) ELSE r

\* What the reads of the file yield: its bytes in one or two chunks, fewer
\* bytes than metadata() reported (the file shrank), more (it grew), or an
\* I/O error.
Deliveries(bytes) ==
  LET n == Len(bytes)
  IN  { [chunks |-> <<bytes>>, fails |-> FALSE],
        [chunks |-> <<SubSeq(bytes, 1, 8), SubSeq(bytes, 9, n)>>, fails |-> FALSE],
        [chunks |-> <<>>, fails |-> FALSE],
        [chunks |-> <<SubSeq(bytes, 1, n - 1)>>, fails |-> FALSE],
        [chunks |-> <<bytes \o <<0>> >>, fails |-> FALSE],
        [chunks |-> <<bytes, <<0>> >>, fails |-> FALSE],
        [chunks |-> <<>>, fails |-> TRUE],
        [chunks |-> <<SubSeq(bytes, 1, 8)>>, fails |-> TRUE] }

RECURSIVE Concat(_)
Concat(chunks) == IF chunks = <<>> THEN <<>> ELSE Head(chunks) \o Concat(Tail(chunks))

\* alloc::alloc does not initialise: the bytes never written hold garbage, or
\* what an earlier use of the memory left there.
UninitTails(bytes, written, len) ==
  IF written >= len
    THEN { <<>> }
    ELSE { Fill(len - written, g) : g \in Garbage }
           \cup { SubSeq(bytes, written + 1, len) }

\* lib.rs 196-204: the copy of the file into the block.
Copy ==
  /\ call.pc = "copy"
  /\ \E d \in Deliveries(call.file.bytes) :
       LET w0 == [written |-> 0, size |-> call.len, ptr |-> call.alloc, mem |-> <<>>]
           r  == io_copy(w0, d.chunks)
       IN  IF call.alloc = NULL /\ r.w.written > 0
             THEN Fault({<<"null", "write">>})
             ELSE /\ UNCHANGED ub
                  /\ IF ~r.ok \/ d.fails
                       THEN Fail("Io")
                       ELSE \E tail \in UninitTails(call.file.bytes, r.w.written, call.len) :
                              call' = [call EXCEPT
                                         !.pc = "parse",
                                         !.written = r.w.written,
                                         !.complete = (Concat(d.chunks) = call.file.bytes),
                                         !.buf = r.w.mem \o tail]
  /\ UNCHANGED <<heap, plugins, handles, dlls, views, got, cret, calls>>

\* lib.rs 206-208: slice::from_raw_parts(alloc, len), PeFile::from_bytes.
Parse ==
  /\ call.pc = "parse"
  /\ IF call.alloc = NULL
       THEN Fault({<<"null", "slice">>})
       ELSE /\ ub' = ub \cup (IF call.written < Len(HeaderBytes)
                                THEN {<<"uninit", "header">>} ELSE {})
            /\ IF PeFile_from_bytes(call.buf).ok
                 THEN call' = [call EXCEPT !.pc = "export"]
                 ELSE Fail("Parse")
  /\ UNCHANGED <<heap, plugins, handles, dlls, views, got, cret, calls>>

\* lib.rs 209-214: get_export("PLUGIN_DATA"), .symbol()
Export ==
  /\ call.pc = "export"
  /\ LET e == get_export(call.file.hdr, "PLUGIN_DATA")
     IN  IF ~e.ok
           THEN Fail("SymbolNotFound")
           ELSE IF ~symbol(e.val).ok
                  THEN Fail("Null")
                  ELSE call' = [call EXCEPT !.pc = "offset", !.rva = symbol(e.val).val]
  /\ UNCHANGED <<heap, plugins, handles, dlls, views, got, cret, ub, calls>>

\* lib.rs 216: rva_to_file_offset of the export
Offset ==
  /\ call.pc = "offset"
  /\ LET r == rva_to_file_offset(call.file.hdr, call.len, call.rva)
     IN  IF r.ok
           THEN call' = [call EXCEPT !.pc = "record", !.offset = r.val]
           ELSE Fail(r.err)
  /\ UNCHANGED <<heap, plugins, handles, dlls, views, got, cret, ub, calls>>

\* The byte at index i (from 0) of a block holding buf; past its end, g.
Mem(buf, i, g) == IF i < Len(buf) THEN buf[i + 1] ELSE g

\* *ptr of a Plugin at alloc + off: the 40 bytes, field by field (repr(C)).
Plugin_read(buf, off, g) ==
  LET b == [k \in 1..PluginSize |-> Mem(buf, off + k - 1, g)]
  IN  [ data_ver    |-> U64(SubSeq(b, 1, 8)),
        name        |-> U64(SubSeq(b, 9, 16)),
        author      |-> U64(SubSeq(b, 17, 24)),
        description |-> U64(SubSeq(b, 25, 32)),
        version     |-> [ major |-> U16(SubSeq(b, 33, 34)),
                          minor |-> U16(SubSeq(b, 35, 36)),
                          patch |-> U16(SubSeq(b, 37, 38)) ] ]

\* Which bytes a read of [from, to) touches that it must not: bytes past the
\* end of the block, bytes of the block never written.
ReadFlags(what, from, to, written, len) ==
  (IF to > len THEN {<<"oob", what>>} ELSE {})
    \cup (IF \E i \in from..(to - 1) : i >= written /\ i < len
            THEN {<<"uninit", what>>} ELSE {})

\* lib.rs 218-223: the record is read at alloc + offset, unchecked.
Record ==
  /\ call.pc = "record"
  /\ LET flags == ReadFlags("record", call.offset, call.offset + PluginSize,
                            call.written, call.len)
     IN  \E g \in Garbage :
           \/ /\ call' = [call EXCEPT !.pc = "name",
                                      !.plugin = Plugin_read(call.buf, call.offset, g)]
              /\ ub' = ub \cup flags
           \/ /\ <<"oob", "record">> \in flags
              /\ Fault(flags)
  /\ UNCHANGED <<heap, plugins, handles, dlls, views, got, cret, calls>>

\* va_to_rstr with the section lookup forgotten: the RVA is used as the file
\* offset.
va_to_rstr_rva_as_offset(hdr, len, va) == va_to_rva(hdr, va)

\* lib.rs 225-231: the closure va_to_rstr, up to the pointer it hands to
\* RStr::from_ptr (an offset into the block).
va_to_rstr(hdr, len, va) ==
  LET r == va_to_rva(hdr, va)
  IN  IF ~r.ok THEN r ELSE rva_to_file_offset(hdr, len, r.val)

NextField(f) ==
  CASE f = "name" -> "author"
    [] f = "author" -> "description"
    [] f = "description" -> "bundle"

\* lib.rs 233-239: name, author and description are translated in this order.
Translate ==
  /\ call.pc \in {"name", "author", "description"}
  /\ LET f == call.pc
         r == va_to_rstr(call.file.hdr, call.len, call.plugin[f])
     IN  IF r.ok
           THEN call' = [call EXCEPT !.pc = NextField(f),
                                     !.rstr[f] = r.val,
                                     !.translated = call.translated \cup {f}]
           ELSE call' = [call EXCEPT !.pc = "returned",
                                     !.ret = [ok |-> FALSE, err |-> r.err],
                                     !.translated = call.translated \cup {f}]
  /\ UNCHANGED <<heap, plugins, handles, dlls, views, got, cret, ub, calls>>

\* lib.rs 241-247: Ok(PluginData { alloc, layout, data: plugin })
Bundle ==
  /\ call.pc = "bundle"
  /\ call' = [call EXCEPT !.pc = "returned", !.ret = [ok |-> TRUE, err |-> "none"]]
  /\ UNCHANGED <<heap, plugins, handles, dlls, views, got, cret, ub, calls>>

\* The PluginData a successful load returns; bytes is what its block holds.
PluginDataOf(c) ==
  [ alloc |-> c.alloc, len |-> c.len, written |-> c.written, bytes |-> c.buf,
    data  |-> [ data_ver    |-> c.plugin.data_ver,
                name        |-> c.rstr.name,
                author      |-> c.rstr.author,
                description |-> c.rstr.description,
                version     |-> c.plugin.version ],
    decl  |-> c.file.decl,
    conforming |-> c.file.conforming /\ c.complete ]

\* get_plugin_data returns to its Rust caller, who keeps the PluginData.
RustReturn ==
  /\ call.pc = "returned"
  /\ call.caller = "rust"
  /\ plugins' = IF call.ret.ok THEN plugins \cup {PluginDataOf(call)} ELSE plugins
  /\ call' = Idle
  /\ UNCHANGED <<heap, handles, dlls, views, got, cret, ub, calls>>

\* ------------------------------------------------- rstr.rs, PluginData

\* rstr.rs 48-51: RStr::as_str, CStr::from_ptr(ptr).to_bytes(): the bytes from
\* the pointer up to the first zero byte, wherever that is.  When the block
\* holds none, the scan leaves the block: it stops at once if the next byte is
\* zero and runs into unmapped memory otherwise.
as_str(bytes, off, written, len, g) ==
  LET zs == { j \in off..(Len(bytes) - 1) : bytes[j + 1] = 0 }
      z  == IF zs = {} THEN Len(bytes) ELSE CHOOSE j \in zs : \A k \in zs : j <= k
  IN  [ fault |-> zs = {} /\ g # 0,
        flags |-> ReadFlags("str", off, z + 1, written, len),
        bytes |-> SubSeq(bytes, off + 1, z) ]

Fields == {"name", "author", "description"}

\* A Rust caller reads a string field of data(): Deref for RStr (rstr.rs 66-72).
ReadField ==
  /\ call.pc = "idle"
  /\ \E p \in plugins, f \in Fields, g \in Garbage :
       LET r == as_str(p.bytes, p.data[f], p.written, p.len, g)
       IN  IF r.fault
             THEN /\ Fault(r.flags)
                  /\ UNCHANGED got
             ELSE /\ got' = [field |-> f, value |-> r.bytes, version |-> p.data.version,
                             decl |-> p.decl, conforming |-> p.conforming]
                  /\ ub' = ub \cup r.flags
                  /\ UNCHANGED call
  /\ UNCHANGED <<heap, plugins, handles, dlls, views, cret, calls>>

\* A Rust caller reads data().version (lib.rs 130-134, 57-63).
ReadVersion ==
  /\ call.pc = "idle"
  /\ \E p \in plugins :
       got' = [field |-> "version", value |-> <<>>, version |-> p.data.version,
               decl |-> p.decl, conforming |-> p.conforming]
  /\ UNCHANGED <<heap, plugins, handles, dlls, views, cret, ub, calls, call>>

\* lib.rs 136-142: Drop for PluginData
PluginData_drop ==
  /\ call.pc = "idle"
  /\ \E p \in plugins :
       /\ heap' = Dealloc(heap, p.alloc)
       /\ plugins' = plugins \ {p}
  /\ UNCHANGED <<handles, dlls, views, got, cret, ub, calls, call>>

\* ------------------------------------------------------ c.rs: extern "C"

\* c.rs 44-46: the length of the null-terminated UTF-16 string
WideLen(dll) == Cardinality({ i \in 1..Len(dll) : \A j \in 1..i : dll[j] # 0 })

IsHigh(u) == u >= 55296 /\ u <= 56319

IsLow(u) == u >= 56320 /\ u <= 57343

\* c.rs 49-50: OsString::from_wide(slice).to_str() is Some exactly for
\* well-formed UTF-16 (no unpaired surrogate).
RECURSIVE to_str(_)
to_str(w) ==
  IF w = <<>> THEN TRUE
  ELSE IF IsHigh(w[1]) THEN Len(w) >= 2 /\ IsLow(w[2]) /\ to_str(Tail(Tail(w)))
  ELSE IF IsLow(w[1]) THEN FALSE
  ELSE to_str(Tail(w))

\* Paths a C caller passes: "a", U+1F600, a lone high surrogate, a lone low one
Paths == { <<97, 0>>, <<55357, 56832, 0>>, <<55357, 0>>, <<56832, 97, 0>> }

\* c.rs 43-50: extern "C" get_plugin_data up to the call of the load
CCall ==
  /\ CanStart
  /\ \E dll \in Paths :
       IF to_str(SubSeq(dll, 1, WideLen(dll)))
         THEN /\ \E f \in Files \cup {NoFile} :
                   call' = [Idle EXCEPT !.pc = "open", !.caller = "c", !.file = f,
                                       !.mark = Len(heap)]
              /\ cret' = NoResult
         ELSE /\ cret' = [op |-> "get_plugin_data", ok |-> FALSE, ptr |-> NULL,
                          err |-> "path", mark |-> Len(heap)]
              /\ UNCHANGED call
  /\ calls' = calls + 1
  /\ got' = NoRead
  /\ UNCHANGED <<heap, plugins, handles, dlls, views, ub>>

\* CString::new(s): a new allocation holding s and a zero byte; NulError when
\* s holds a zero byte.
CString_new(s, id) ==
  IF \E i \in 1..Len(s) : s[i] = 0
    THEN Err("NulError")
    ELSE Ok([ptr |-> id, bytes |-> s])

\* CPlugin::try_from without the copies: the handle's strings point into the
\* block of the PluginData.
CPlugin_try_from_borrowing(p, next, g) ==
  LET n == as_str(p.bytes, p.data.name, p.written, p.len, g)
      a == as_str(p.bytes, p.data.author, p.written, p.len, g)
      d == as_str(p.bytes, p.data.description, p.written, p.len, g)
  IN  [ ok |-> ~(n.fault \/ a.fault \/ d.fault),
        fault |-> n.fault \/ a.fault \/ d.fault,
        flags |-> n.flags \cup a.flags \cup d.flags,
        allocated |-> 0,
        cplugin |-> [ name |-> [ptr |-> p.alloc, bytes |-> n.bytes],
                      author |-> [ptr |-> p.alloc, bytes |-> a.bytes],
                      description |-> [ptr |-> p.alloc, bytes |-> d.bytes],
                      version |-> p.data.version ] ]

\* c.rs 18-31: CPlugin::try_from(Plugin).  p is the PluginData the Plugin
\* points into, next the last block id in use.  allocated counts the CStrings
\* built; when a later field fails, `?` drops them.
CPlugin_try_from(p, next, g) ==
  LET n  == as_str(p.bytes, p.data.name, p.written, p.len, g)
      a  == as_str(p.bytes, p.data.author, p.written, p.len, g)
      d  == as_str(p.bytes, p.data.description, p.written, p.len, g)
      cn == CString_new(n.bytes, next + 1)
      ca == CString_new(a.bytes, next + 2)
      cd == CString_new(d.bytes, next + 3)
      R(ok, fault, flags, k) ==
        [ ok |-> ok, fault |-> fault, flags |-> flags, allocated |-> k,
          cplugin |-> [ name |-> cn.val, author |-> ca.val, description |-> cd.val,
                        version |-> p.data.version ] ]
  IN  CASE n.fault -> R(FALSE, TRUE, n.flags, 0)
        [] ~n.fault /\ ~cn.ok -> R(FALSE, FALSE, n.flags, 0)
        [] ~n.fault /\ cn.ok /\ a.fault -> R(FALSE, TRUE, n.flags \cup a.flags, 1)
        [] ~n.fault /\ cn.ok /\ ~a.fault /\ ~ca.ok ->
             R(FALSE, FALSE, n.flags \cup a.flags, 1)
        [] ~n.fault /\ cn.ok /\ ~a.fault /\ ca.ok /\ d.fault ->
             R(FALSE, TRUE, n.flags \cup a.flags \cup d.flags, 2)
        [] ~n.fault /\ cn.ok /\ ~a.fault /\ ca.ok /\ ~d.fault /\ ~cd.ok ->
             R(FALSE, FALSE, n.flags \cup a.flags \cup d.flags, 2)
        [] OTHER -> R(TRUE, FALSE, n.flags \cup a.flags \cup d.flags, 3)

Null(mark) ==
  [op |-> "get_plugin_data", ok |-> FALSE, ptr |-> NULL, err |-> "load", mark |-> mark]

\* c.rs 51-65: the match on the load's result.  On Ok the Plugin is converted,
\* boxed and leaked; the PluginData is dropped when the arm is left.
CFinish ==
  /\ call.pc = "returned"
  /\ call.caller = "c"
  /\ IF ~call.ret.ok
       THEN /\ cret' = Null(call.mark)
            /\ call' = Idle
            /\ UNCHANGED <<heap, handles, ub>>
       ELSE \E g \in Garbage :
              LET p     == PluginDataOf(call)
                  r     == CPlugin_try_from(p, Len(heap), g)
                  box   == Len(heap) + r.allocated + 1
                  heap1 == heap \o [i \in 1..r.allocated |->
                                     Block("cstring", IF r.ok THEN box ELSE NULL)]
                  built == [i \in 1..r.allocated |-> Len(heap) + i]
              IN  IF r.fault
                    THEN /\ Fault(r.flags)
                         /\ UNCHANGED <<heap, handles, cret>>
                    ELSE /\ ub' = ub \cup r.flags
                         /\ call' = Idle
                         /\ IF r.ok
                              THEN /\ heap' = Dealloc(Append(heap1, Block("box", NULL)), p.alloc)
                                   /\ handles' = handles \cup
                                        {[box |-> box] @@ r.cplugin}
                                   /\ cret' = [op |-> "get_plugin_data", ok |-> TRUE,
                                               ptr |-> box, err |-> "none",
                                               mark |-> call.mark]
                              ELSE /\ heap' = Dealloc(DeallocAll(heap1, built), p.alloc)
                                   /\ cret' = [Null(call.mark) EXCEPT !.err = "NulError"]
                                   /\ UNCHANGED handles
  /\ UNCHANGED <<plugins, dlls, views, got, calls>>

\* c.rs 68-106: an accessor returns a pointer into the handle's own storage.
Accessor(f) ==
  /\ call.pc = "idle"
  /\ \E h \in handles :
       views' = {[handle |-> h.box, field |-> f,
                  ptr |-> IF f = "version" THEN h.box ELSE h[f].ptr]}
  /\ UNCHANGED <<heap, plugins, handles, dlls, got, cret, ub, calls, call>>

c_name == Accessor("name")

c_author == Accessor("author")

c_description == Accessor("description")

c_version == Accessor("version")

\* c.rs 108-115: free_plugin on a handle: Box::from_raw and drop; the three
\* CStrings and the box are released.
free_plugin ==
  /\ call.pc = "idle"
  /\ \E h \in handles :
       /\ heap' = DeallocAll(heap, <<h.name.ptr, h.author.ptr, h.description.ptr, h.box>>)
       /\ handles' = handles \ {h}
       /\ views' = { v \in views : v.handle # h.box }
  /\ UNCHANGED <<plugins, dlls, got, cret, ub, calls, call>>

\* c.rs 108-115: free_plugin(null): Box::from_raw(null) and its drop are
\* undefined; the process faults on the null dereference, or goes on.
free_plugin_null ==
  /\ call.pc = "idle"
  /\ <<"null", "free">> \notin ub
  /\ \/ Fault({<<"null", "free">>})
     \/ /\ ub' = ub \cup {<<"null", "free">>}
        /\ UNCHANGED call
  /\ UNCHANGED <<heap, plugins, handles, dlls, views, got, cret, calls>>

\* ------------------------------------------------------ blob.rs, dll.rs

\* blob.rs 22-42: Blob::new_zeroed(size); ptr is what alloc_zeroed returned.
Blob_new_zeroed(size, ptr) ==
  IF ptr = NULL
    THEN Err("failed to alloc blob")
    ELSE Ok([size |-> size, data |-> ptr, bytes |-> Zeros(size)])

\* dll.rs 32: file.read_exact(&mut blob): all size bytes or an error
read_exact(size, d) ==
  IF Len(Concat(d.chunks)) >= size
    THEN Ok(SubSeq(Concat(d.chunks), 1, size))
    ELSE Err("Io")

\* dll.rs 26-44: Dll::new.  The Blob is dropped on every error after it exists.
Dll_new ==
  /\ CanStart
  /\ \E f \in Files \cup {NoFile}, ptr \in {NULL, Len(heap) + 1} :
       LET size == Len(f.bytes)
           b    == Blob_new_zeroed(size, ptr)
           fail(e) == cret' = [op |-> "Dll::new", ok |-> FALSE, ptr |-> NULL, err |-> e,
                               mark |-> Len(heap)]
           heap1 == IF ptr = NULL THEN heap ELSE Append(heap, Block("blob", NULL))
       IN  IF f = NoFile
             THEN fail("Io") /\ UNCHANGED <<heap, dlls>>
             ELSE IF ~b.ok
                    THEN fail(b.err) /\ UNCHANGED <<heap, dlls>>
                    ELSE \E d \in Deliveries(f.bytes) :
                           LET r == read_exact(size, d)
                           IN  IF ~r.ok
                                 THEN /\ fail(r.err)
                                      /\ heap' = Dealloc(heap1, ptr)
                                      /\ UNCHANGED dlls
                                 ELSE IF ~PeFile_from_bytes(r.val).ok
                                        THEN /\ fail("Parse")
                                             /\ heap' = Dealloc(heap1, ptr)
                                             /\ UNCHANGED dlls
                                        ELSE /\ cret' = [op |-> "Dll::new", ok |-> TRUE,
                                                         ptr |-> ptr, err |-> "none",
                                                         mark |-> Len(heap)]
                                             /\ heap' = heap1
                                             /\ dlls' = dlls \cup {[blob |-> ptr]}
  /\ calls' = calls + 1
  /\ got' = NoRead
  /\ UNCHANGED <<plugins, handles, views, ub, call>>

\* blob.rs 67-73: Drop for Blob, when the Dll is dropped
Blob_drop ==
  /\ call.pc = "idle"
  /\ \E d \in dlls :
       /\ heap' = Dealloc(heap, d.blob)
       /\ dlls' = dlls \ {d}
  /\ UNCHANGED <<plugins, handles, views, got, cret, ub, calls, call>>

Next ==
  \/ RustCall
  \/ Open
  \/ Copy
  \/ Parse
  \/ Export
  \/ Offset
  \/ Record
  \/ Translate
  \/ Bundle
  \/ RustReturn
  \/ ReadField
  \/ ReadVersion
  \/ PluginData_drop
  \/ CCall
  \/ CFinish
  \/ c_name
  \/ c_author
  \/ c_description
  \/ c_version
  \/ free_plugin
  \/ free_plugin_null
  \/ Dll_new
  \/ Blob_drop

Spec == Init /\ [][Next]_vars

\* ------------------------------------------------------------ the claims

InLoad == call.pc \notin {"idle", "fault"}

\* The blocks something the caller holds still owns.
Owned(i) ==
  \/ \E p \in plugins : p.alloc = i
  \/ \E h \in handles : i \in {h.box, h.name.ptr, h.author.ptr, h.description.ptr}
  \/ \E d \in dlls : d.blob = i

HasTerminator(buf, off) == \E j \in (off + 1)..Len(buf) : buf[j] = 0

\* C1: a record whose data_ver is outside 1..DATA_VERSION is rejected before
\* any of its string references is handed to va_to_rva: whenever a reference
\* of the record read by this load (of a completely read file) has been
\* translated, its data_ver is in range.
C1_VersionGated ==
  (call.complete /\ call.translated # {}) => call.plugin.data_ver \in 1..DATA_VERSION

\* C2: the image block of a load is released exactly once on every path: when
\* get_plugin_data returns an error the block it allocated is freed, a live
\* image block belongs to the load in progress or to a PluginData not yet
\* dropped, and no image block is released twice.
C2_BufferFreedOnce ==
  /\ (call.pc = "returned" /\ ~call.ret.ok /\ call.alloc # NULL)
       => heap[call.alloc].state = "freed"
  /\ \A i \in 1..Len(heap) :
       heap[i].kind = "image" =>
         /\ heap[i].state # "double-freed"
         /\ heap[i].state = "live" => (Owned(i) \/ (InLoad /\ call.alloc = i))

\* C3: extern "C" get_plugin_data never leaves anything behind when it returns
\* null: every block allocated during that call has been released; and a
\* non-null result is a handle whose box and three CStrings are all live.
C3_AcquireAllOrNothing ==
  /\ (cret.op = "get_plugin_data" /\ ~cret.ok /\ call.pc = "idle")
       => \A i \in (cret.mark + 1)..Len(heap) : heap[i].state = "freed"
  /\ \A h \in handles :
       \A i \in {h.box, h.name.ptr, h.author.ptr, h.description.ptr} :
         heap[i].state = "live"

\* C4: free_plugin(null) is a no-op: it never executes the drop of a Box made
\* from the null pointer.
C4_FreeNullIsNoOp == <<"null", "free">> \notin ub

\* C5: the scan for a string's terminating zero byte stays inside the block: a
\* load (of a completely read file) that returns Ok has found a zero byte at
\* or after each translated offset, inside the buffer; and in an execution
\* with no other undefined operation, no read of a string field touches a
\* byte at an index >= the buffer length.
C5_ScanBounded ==
  /\ (call.pc = "returned" /\ call.ret.ok /\ call.complete)
       => \A f \in Fields : HasTerminator(call.buf, call.rstr[f])
  /\ ub # {<<"oob", "str">>}

\* C6: the record is read only when it lies inside the buffer: past the read
\* of the record (of a completely read file), offset + size_of::<Plugin>() <=
\* len; and in an execution with no other undefined operation, no byte of the
\* record is read at an index >= len.
C6_RecordInBounds ==
  /\ (call.complete /\ call.pc \in {"name", "author", "description", "bundle"})
       => call.offset + PluginSize <= call.len
  /\ ub # {<<"oob", "record">>}

\* C7: round trip: a conforming image that is read completely loads without
\* error, and every field read through the returned PluginData gives the
\* declared value: the strings byte for byte, the version number for number.
C7_RoundTrip ==
  /\ (call.pc = "returned" /\ call.file.conforming /\ call.complete) => call.ret.ok
  /\ \A p \in plugins : p.conforming => p.data.data_ver = DATA_VERSION
  /\ got.conforming =>
       /\ got.version = got.decl.version
       /\ got.field \in Fields => got.value = got.decl[got.field]

\* C7 witness: the description of the Loader plugin has been read back from
\* its conforming image.
C7_Witness ==
  /\ got.conforming
  /\ got.field = "description"
  /\ got.decl = LoaderDesc
  /\ got.value = LoaderDescription

\* C8: a view an accessor returned for a handle not yet released points to
\* live storage that the handle owns (its box for the version, one of its
\* CStrings otherwise), never to an image block; and once a handle's box is
\* released, the CStrings it owned are released too.
C8_ViewsValidUntilRelease ==
  /\ \A v \in views :
       /\ \E h \in handles : h.box = v.handle
       /\ heap[v.handle].state = "live"
       /\ heap[v.ptr].state = "live"
       /\ heap[v.ptr].kind # "image"
       /\ IF v.field = "version"
            THEN v.ptr = v.handle
            ELSE heap[v.ptr].kind = "cstring" /\ heap[v.ptr].owner = v.handle
  /\ \A i \in 1..Len(heap) :
       (heap[i].kind = "cstring" /\ heap[i].owner # NULL
          /\ heap[heap[i].owner].state # "live")
         => heap[i].state = "freed"
  /\ \A i \in 1..Len(heap) : heap[i].state # "double-freed"

\* C8 witness: an accessor has returned the name of a live handle, after the
\* image block of the load was released.
C8_Witness ==
  /\ \E v \in views : v.field = "name"
  /\ \E i \in 1..Len(heap) : heap[i].kind = "image" /\ heap[i].state = "freed"

\* C9: a truncated read is an I/O error: header parsing is reached only with
\* every byte of the (non-null) buffer written by the copy (written = size).
C9_ParsedOnlyWhenFull ==
  (call.alloc # NULL /\ call.pc \in {"parse", "export", "offset", "record", "name",
                                     "author", "description", "bundle"})
    => call.written = call.len

\* C10: when the allocator returns null the load returns an error: a null
\* buffer is never written to and never made a slice, by get_plugin_data or
\* by Dll::new.
C10_NullBufferReported ==
  /\ <<"null", "write">> \notin ub
  /\ <<"null", "slice">> \notin ub
  /\ (cret.op = "Dll::new" /\ cret.ok) => cret.ptr # NULL

====
